---- MODULE Spec2Model ----
(***************************************************************************)
(* A model of the BMP library of src/src/bmap.c (declared in               *)
(* src/include/bmap.h): the pixel buffer with its access functions and     *)
(* transforms, the codec (bmp_load, bmp_save) on a byte-level file, and    *)
(* the row padding function.                                               *)
(*                                                                         *)
(* Three specifications share the variables:                               *)
(*   Spec         one image under bmp_get_pixel, bmp_set_pixel,            *)
(*                bmp_rotate_right, bmp_flip_horizontal, bmp_grayscale     *)
(*                and bmp_invert;                                          *)
(*   SpecCodec    bmp_save and bmp_load (line by line) on files;           *)
(*   SpecPadding  calculate_padding over a range of widths.                *)
(***************************************************************************)
EXTENDS Integers, Sequences, FiniteSets, TLC

VARIABLES
    image,       \* the caller's BMPImage*: a record, see NullImage / MkImage
    call,        \* the library call last made (or in progress) and its arguments
    ret,         \* what that call returned to the caller
    streak,      \* number of consecutive successful bmp_rotate_right calls (0..4)
    streakBase,  \* the image as it was when that streak started
    disk,        \* the file bmp_save last wrote (a sequence of bytes), or NoFile
    saved,       \* the image bmp_save wrote to disk
    err,         \* *err_out of bmp_load / the BMPError bmp_save returned
    pc,          \* position inside bmp_load ("idle" outside it)
    filepath,    \* bmp_load's FILE* filepath: "none", "null", "open" or "closed"
    hdr,         \* bmp_load's fh and ih as read
    img_local,   \* bmp_load's local img: [ptr, width, height, data]
    heap,        \* blocks bmp_load allocated and has not freed
    trace,       \* the libc calls bmp_load has made, in order
    crashed,     \* the process was killed by a fault
    padW,        \* SpecPadding: the width handed to calculate_padding
    padP         \* SpecPadding: what calculate_padding returned

bufVars   == <<image, call, ret, streak, streakBase>>
codecVars == <<disk, saved, err, pc, filepath, hdr, img_local, heap, trace, crashed>>
padVars   == <<padW, padP>>
vars      == <<image, call, ret, streak, streakBase,
               disk, saved, err, pc, filepath, hdr, img_local, heap, trace, crashed,
               padW, padP>>

(***************************************************************************)
(* Bounds of the model.                                                    *)
(***************************************************************************)
\* images have width * height <= MaxArea (so widths 1..MaxArea all occur)
MaxArea == 4
\* SpecPadding hands calculate_padding the widths -MaxPadWidth..MaxPadWidth
MaxPadWidth == 64
\* bits of size_t in the model (scaled down from the platform's 32 or 64:
\* TLC's integers are 32-bit)
SizeTBits == 16

(***************************************************************************)
(* Program constants.                                                      *)
(***************************************************************************)
BMP_SUCCESS            == 0
BMP_ERR_FILE_NOT_FOUND == 1
BMP_ERR_INVALID_FORMAT == 2
BMP_ERR_MALLOC_FAILED  == 3
\* sizeof(Pixel): three uint8_t, packed
SizeofPixel            == 3
\* sizeof(BMPFileHeader), sizeof(BMPInfoHeader), packed
SizeofFileHeader       == 14
SizeofInfoHeader       == 40
\* 0x4D42, "BM" little-endian
BM_MAGIC               == 19778
BitCount24             == 24
PixelDataOffset        == 54
PixelsPerMeter         == 2835

(***************************************************************************)
(* Pixels and images.                                                      *)
(***************************************************************************)
Pixel(b, g, r) == [blue |-> b, green |-> g, red |-> r]

Black == Pixel(0, 0, 0)

\* the content of memory that malloc returned and nothing wrote, or that
\* lies outside the buffer: not a value the program may rely on
Indeterminate == Pixel(-1, -1, -1)

NullImage == [null |-> TRUE, width |-> 0, height |-> 0, data_null |-> TRUE, data |-> <<>>]

MkImage(w, h, d) == [null |-> FALSE, width |-> w, height |-> h, data_null |-> FALSE, data |-> d]

\* image->data[index], index counted from 0 as in C
DataAt(data, index) ==
    IF index >= 0 /\ index < Len(data) THEN data[index + 1] ELSE Indeterminate

\* data[index] = p
DataPut(data, index, p) ==
    IF index >= 0 /\ index < Len(data) THEN [data EXCEPT ![index + 1] = p] ELSE data

\* the pixel sets images are drawn from: closed under grayscale and invert
Red    == Pixel(0, 0, 255)
Cyan   == Pixel(255, 255, 0)
Gray85 == Pixel(85, 85, 85)

InitPixels == {Red, Gray85}

SetColors == {Cyan}

Dims == {d \in (1..MaxArea) \X (1..MaxArea) : d[1] * d[2] <= MaxArea}

ImagesOver(P) ==
    UNION {{MkImage(d[1], d[2], f) : f \in [1..(d[1] * d[2]) -> P]} : d \in Dims}

(***************************************************************************)
(* What a call hands back to its caller.                                   *)
(***************************************************************************)
\* a function declared void returns nothing
VoidRet == [kind |-> "void", pixel |-> Black, code |-> 0]

PixelRet(p) == [kind |-> "Pixel", pixel |-> p, code |-> 0]

ErrorRet(e) == [kind |-> "BMPError", pixel |-> Black, code |-> e]

\* bmp_load returns the image through `image`; ret tells whether it is NULL
PointerRet(isNull) == [kind |-> IF isNull THEN "NULL" ELSE "BMPImage*", pixel |-> Black, code |-> 0]

NoCall == [op |-> "none", x |-> 0, y |-> 0, color |-> Black, alloc_ok |-> TRUE]

BufCall(op, x, y, color, ok) == [op |-> op, x |-> x, y |-> y, color |-> color, alloc_ok |-> ok]

(***************************************************************************)
(* Pixel access: bmp_get_pixel, bmp_set_pixel.                             *)
(***************************************************************************)
\* variant of OutOfBounds without the x >= width test (sensitivity of C9)
OutOfBounds_NoUpperX(img, x, y) ==
    \/ img.null
    \/ img.data_null
    \/ x < 0
    \/ y < 0
    \/ y >= img.height

OutOfBounds(img, x, y) ==
    \/ img.null
    \/ img.data_null
    \/ x < 0
    \/ x >= img.width
    \/ y < 0
    \/ y >= img.height

PixelIndex(img, x, y) == (y * img.width) + x

bmp_get_pixel(img, x, y) ==
    IF OutOfBounds(img, x, y)
    THEN Black
    ELSE DataAt(img.data, PixelIndex(img, x, y))

bmp_set_pixel(img, x, y, color) ==
    IF OutOfBounds(img, x, y)
    THEN img
    ELSE [img EXCEPT !.data = DataPut(img.data, PixelIndex(img, x, y), color)]

(***************************************************************************)
(* The copy loops of bmp_rotate_right and bmp_flip_horizontal:             *)
(*   for i < height, for j < width: new_data[new_index] = data[old_index]. *)
(* new_data comes from malloc, so an element no iteration writes stays     *)
(* Indeterminate, and one written twice keeps the later write.             *)
(***************************************************************************)
OldIndex(img, i, j) == (i * img.width) + j

\* variant of RotateNewIndex that strides by the old width (sensitivity of C8)
RotateNewIndex_OldWidth(img, new_width, i, j) == (j * img.width) + (img.height - 1 - i)

RotateNewIndex(img, new_width, i, j) == (j * new_width) + (img.height - 1 - i)

FlipNewIndex(img, i, j) == (i * img.width) + (img.width - 1 - j)

LoopPairs(img) == (0..(img.height - 1)) \X (0..(img.width - 1))

\* the last iteration (in loop order) among the set W of iterations
LastIteration(img, W) ==
    CHOOSE p \in W : \A q \in W : OldIndex(img, q[1], q[2]) <= OldIndex(img, p[1], p[2])

RotateCopy(img, new_width, new_height) ==
    [n \in 1..(new_width * new_height) |->
        LET W == {p \in LoopPairs(img) : RotateNewIndex(img, new_width, p[1], p[2]) = n - 1}
        IN  IF W = {}
            THEN Indeterminate
            ELSE LET p == LastIteration(img, W)
                 IN  DataAt(img.data, OldIndex(img, p[1], p[2]))]

FlipCopy(img) ==
    [n \in 1..(img.width * img.height) |->
        LET W == {p \in LoopPairs(img) : FlipNewIndex(img, p[1], p[2]) = n - 1}
        IN  IF W = {}
            THEN Indeterminate
            ELSE LET p == LastIteration(img, W)
                 IN  DataAt(img.data, OldIndex(img, p[1], p[2]))]

\* variant of bmp_rotate_right that forgets to store the new height (sensitivity
\* of C1)
bmp_rotate_right_KeepsHeight(img, alloc_ok) ==
    IF img.null \/ img.data_null
    THEN img
    ELSE LET new_height == img.width
             new_width  == img.height
         IN  IF ~alloc_ok
             THEN img
             ELSE [img EXCEPT !.data  = RotateCopy(img, new_width, new_height),
                              !.width = new_width]

\* bmp_rotate_right; alloc_ok: whether malloc(new_width * new_height * 3) succeeds
bmp_rotate_right(img, alloc_ok) ==
    IF img.null \/ img.data_null
    THEN img
    ELSE LET new_height == img.width
             new_width  == img.height
         IN  IF ~alloc_ok
             THEN img
             ELSE [img EXCEPT !.data   = RotateCopy(img, new_width, new_height),
                              !.width  = new_width,
                              !.height = new_height]

\* bmp_flip_horizontal
bmp_flip_horizontal(img, alloc_ok) ==
    IF img.null \/ img.data_null
    THEN img
    ELSE IF ~alloc_ok
         THEN img
         ELSE [img EXCEPT !.data = FlipCopy(img)]

(***************************************************************************)
(* Filters: bmp_grayscale, bmp_invert (uint8_t arithmetic).                *)
(***************************************************************************)
GrayPixel(p) ==
    LET avg == ((p.red + p.green + p.blue) \div 3) % 256
    IN  Pixel(avg, avg, avg)

InvertPixel(p) ==
    Pixel((255 - p.blue) % 256, (255 - p.green) % 256, (255 - p.red) % 256)

bmp_grayscale(img) ==
    IF img.null \/ img.data_null
    THEN img
    ELSE [img EXCEPT !.data =
            [k \in 1..Len(img.data) |->
                IF k - 1 < img.height * img.width
                THEN GrayPixel(img.data[k])
                ELSE img.data[k]]]

bmp_invert(img) ==
    IF img.null \/ img.data_null
    THEN img
    ELSE [img EXCEPT !.data =
            [k \in 1..Len(img.data) |->
                IF k - 1 < img.height * img.width
                THEN InvertPixel(img.data[k])
                ELSE img.data[k]]]

(***************************************************************************)
(* Values the variables of the other specifications rest at.               *)
(***************************************************************************)
NoFile == [exists |-> FALSE, bytes |-> <<>>]

File(bytes) == [exists |-> TRUE, bytes |-> bytes]

NoHeader == [type |-> 0, offset |-> 0, width |-> 0, height |-> 0,
             bit_count |-> 0, compression |-> 0]

NoLocalImage == [ptr |-> "none", width |-> 0, height |-> 0, data_null |-> TRUE, data |-> <<>>]

CodecAtRest ==
    /\ disk = NoFile
    /\ saved = NullImage
    /\ err = BMP_SUCCESS
    /\ pc = "idle"
    /\ filepath = "none"
    /\ hdr = NoHeader
    /\ img_local = NoLocalImage
    /\ heap = {}
    /\ trace = <<>>
    /\ crashed = FALSE

PaddingAtRest == padW = 0 /\ padP = 0

BufferAtRest ==
    /\ ret = VoidRet
    /\ streak = 0
    /\ streakBase = NullImage

(***************************************************************************)
(* Spec: one image and the calls of the pixel-buffer interface.            *)
(***************************************************************************)
\* a zero-initialised BMPImage: no buffer
ZeroImage == [null |-> FALSE, width |-> 0, height |-> 0, data_null |-> TRUE, data |-> <<>>]

\* coordinates handed to bmp_get_pixel / bmp_set_pixel: below, inside and
\* beyond the image
XCoords(img) == (-1)..img.width

YCoords(img) == (-1)..img.height

Init ==
    /\ image \in ImagesOver(InitPixels) \cup {NullImage, ZeroImage}
    /\ call = NoCall
    /\ BufferAtRest
    /\ CodecAtRest
    /\ PaddingAtRest

\* a call other than a successful rotation ends the streak
NoStreak == streak' = 0 /\ streakBase' = NullImage

GetPixelCall(x, y) ==
    /\ call' = BufCall("bmp_get_pixel", x, y, Black, TRUE)
    /\ ret' = PixelRet(bmp_get_pixel(image, x, y))
    /\ image' = image
    /\ NoStreak
    /\ UNCHANGED <<codecVars, padVars>>

SetPixelCall(x, y, color) ==
    /\ call' = BufCall("bmp_set_pixel", x, y, color, TRUE)
    /\ ret' = VoidRet
    /\ image' = bmp_set_pixel(image, x, y, color)
    /\ NoStreak
    /\ UNCHANGED <<codecVars, padVars>>

RotateRightCall(alloc_ok) ==
    /\ call' = BufCall("bmp_rotate_right", 0, 0, Black, alloc_ok)
    /\ ret' = VoidRet
    /\ image' = bmp_rotate_right(image, alloc_ok)
    /\ IF alloc_ok /\ ~image.null /\ ~image.data_null
       THEN IF streak \in 1..3
            THEN streak' = streak + 1 /\ streakBase' = streakBase
            ELSE streak' = 1 /\ streakBase' = image
       ELSE NoStreak
    /\ UNCHANGED <<codecVars, padVars>>

FlipHorizontalCall(alloc_ok) ==
    /\ call' = BufCall("bmp_flip_horizontal", 0, 0, Black, alloc_ok)
    /\ ret' = VoidRet
    /\ image' = bmp_flip_horizontal(image, alloc_ok)
    /\ NoStreak
    /\ UNCHANGED <<codecVars, padVars>>

GrayscaleCall ==
    /\ call' = BufCall("bmp_grayscale", 0, 0, Black, TRUE)
    /\ ret' = VoidRet
    /\ image' = bmp_grayscale(image)
    /\ NoStreak
    /\ UNCHANGED <<codecVars, padVars>>

InvertCall ==
    /\ call' = BufCall("bmp_invert", 0, 0, Black, TRUE)
    /\ ret' = VoidRet
    /\ image' = bmp_invert(image)
    /\ NoStreak
    /\ UNCHANGED <<codecVars, padVars>>

Next ==
    \/ \E x \in XCoords(image), y \in YCoords(image) : GetPixelCall(x, y)
    \/ \E x \in XCoords(image), y \in YCoords(image), color \in SetColors :
          SetPixelCall(x, y, color)
    \/ \E alloc_ok \in BOOLEAN : RotateRightCall(alloc_ok)
    \/ \E alloc_ok \in BOOLEAN : FlipHorizontalCall(alloc_ok)
    \/ GrayscaleCall
    \/ InvertCall

Spec == Init /\ [][Next]_vars

(***************************************************************************)
(* calculate_padding.  width is an int; width * sizeof(Pixel) is computed  *)
(* in size_t, so width is first converted to size_t (modulo 2^SizeTBits).  *)
(***************************************************************************)
SizeTModulus == 2 ^ SizeTBits

ToSizeT(v) == v % SizeTModulus

\* variant of calculate_padding without the outer % 4 (sensitivity of C10)
calculate_padding_NoOuterMod(width) ==
    4 - (((ToSizeT(width) * SizeofPixel) % SizeTModulus) % 4)

calculate_padding(width) ==
    (4 - (((ToSizeT(width) * SizeofPixel) % SizeTModulus) % 4)) % 4

(***************************************************************************)
(* The on-disk records: little-endian fields, no gaps (#pragma pack 1).    *)
(***************************************************************************)
ByteOf(v, k) == (v \div (256 ^ k)) % 256

\* a uint16_t / a 32-bit field as stored (two's complement for int32_t)
LE16(v) == <<ByteOf(v, 0), ByteOf(v, 1)>>

LE32(v) == <<ByteOf(v, 0), ByteOf(v, 1), ByteOf(v, 2), ByteOf(v, 3)>>

\* the byte at file position pos (from 0); past the end fread stores nothing
\* and the destination keeps whatever it held
IndeterminateByte == -1

ByteAt(bytes, pos) ==
    IF pos >= 0 /\ pos < Len(bytes) THEN bytes[pos + 1] ELSE IndeterminateByte

U16At(bytes, pos) == ByteAt(bytes, pos) + 256 * ByteAt(bytes, pos + 1)

\* uint32_t fields; the model's files keep them below 2^31
U32At(bytes, pos) ==
    ByteAt(bytes, pos) + 256 * ByteAt(bytes, pos + 1)
        + 65536 * ByteAt(bytes, pos + 2) + 16777216 * ByteAt(bytes, pos + 3)

\* int32_t fields
I32At(bytes, pos) ==
    LET b3 == ByteAt(bytes, pos + 3)
    IN  ByteAt(bytes, pos) + 256 * ByteAt(bytes, pos + 1)
            + 65536 * ByteAt(bytes, pos + 2)
            + 16777216 * (IF b3 >= 128 THEN b3 - 256 ELSE b3)

FileHeaderBytes(fh) ==
    LE16(fh.type) \o LE32(fh.size) \o LE16(fh.reserved1) \o LE16(fh.reserved2)
        \o LE32(fh.offset)

InfoHeaderBytes(ih) ==
    LE32(ih.size) \o LE32(ih.width) \o LE32(ih.height) \o LE16(ih.planes)
        \o LE16(ih.bit_count) \o LE32(ih.compression) \o LE32(ih.size_image)
        \o LE32(ih.x_pixels_per_meter) \o LE32(ih.y_pixels_per_meter)
        \o LE32(ih.colors_used) \o LE32(ih.colors_important)

\* a Pixel in memory and on disk: blue, green, red
PixelBytes(p) == <<p.blue, p.green, p.red>>

RECURSIVE PixelsBytes(_, _, _)
\* fwrite(&data[first], sizeof(Pixel), count, f)
PixelsBytes(data, first, count) ==
    IF count <= 0
    THEN <<>>
    ELSE PixelBytes(DataAt(data, first)) \o PixelsBytes(data, first + 1, count - 1)

Zeros(n) == [k \in 1..n |-> 0]

(***************************************************************************)
(* bmp_save: the bytes written for an image.                               *)
(***************************************************************************)
RECURSIVE SaveRows(_, _, _)
\* rows i .. height-1, each followed by `padding` zero bytes
SaveRows(img, padding, i) ==
    IF i >= img.height
    THEN <<>>
    ELSE PixelsBytes(img.data, i * img.width, img.width) \o Zeros(padding)
            \o SaveRows(img, padding, i + 1)

SaveFileHeader(image_size) ==
    [type |-> BM_MAGIC,
     size |-> SizeofFileHeader + SizeofInfoHeader + image_size,
     reserved1 |-> 0, reserved2 |-> 0,
     offset |-> PixelDataOffset]

SaveInfoHeader(img, image_size) ==
    [size |-> SizeofInfoHeader, width |-> img.width, height |-> img.height,
     planes |-> 1, bit_count |-> BitCount24, compression |-> 0,
     size_image |-> image_size,
     x_pixels_per_meter |-> PixelsPerMeter, y_pixels_per_meter |-> PixelsPerMeter,
     colors_used |-> 0, colors_important |-> 0]

\* image_size is a uint32_t; within the bounds of the model it stays far
\* below 2^32 and never wraps
SaveBytes(img) ==
    LET padding    == calculate_padding(img.width)
        image_size == (img.width * SizeofPixel + padding) * img.height
    IN  FileHeaderBytes(SaveFileHeader(image_size))
            \o InfoHeaderBytes(SaveInfoHeader(img, image_size))
            \o SaveRows(img, padding, 0)

(***************************************************************************)
(* bmp_load: what the two header freads store, and the row loop.           *)
(***************************************************************************)
\* the fields of fh and ih; bmp_load uses type, offset, width, height and
\* bit_count, and never looks at compression
ReadHeaders(bytes) ==
    [type        |-> U16At(bytes, 0),
     offset      |-> U32At(bytes, 10),
     width       |-> I32At(bytes, SizeofFileHeader + 4),
     height      |-> I32At(bytes, SizeofFileHeader + 8),
     bit_count   |-> U16At(bytes, SizeofFileHeader + 14),
     compression |-> U32At(bytes, SizeofFileHeader + 16)]

\* variant of BadFormat with && for || (sensitivity of C4)
BadFormat_Both(h) == h.type # BM_MAGIC /\ h.bit_count # BitCount24

\* fh.type != 0x4D42 || ih.bit_count != 24
BadFormat(h) == h.type # BM_MAGIC \/ h.bit_count # BitCount24

Abs(v) == IF v < 0 THEN -v ELSE v

\* variant of LoadRowStart that does not skip the padding (sensitivity of C2)
LoadRowStart_NoSkip(offset, width, padding, i) ==
    offset + i * (width * SizeofPixel)

\* the file position at which the fread of row i starts: fseek to offset,
\* then per row `width` pixels read and `padding` bytes skipped
LoadRowStart(offset, width, padding, i) ==
    offset + i * (width * SizeofPixel + padding)

PixelAt(bytes, pos) ==
    Pixel(ByteAt(bytes, pos), ByteAt(bytes, pos + 1), ByteAt(bytes, pos + 2))

LoadRows(bytes, offset, width, height) ==
    LET padding == calculate_padding(width)
    IN  [k \in 1..(width * height) |->
            LET i == (k - 1) \div width
                j == (k - 1) % width
            IN  PixelAt(bytes, LoadRowStart(offset, width, padding, i) + j * SizeofPixel)]

(***************************************************************************)
(* SpecCodec: the inputs.                                                  *)
(***************************************************************************)
\* images whose bytes all differ from their neighbours, so that a shifted or
\* reordered read shows
PatternPixel(base, k) ==
    Pixel((base + 3 * k) % 256, (base + 3 * k + 1) % 256, (base + 3 * k + 2) % 256)

PatternImage(w, h, base) ==
    MkImage(w, h, [k \in 1..(w * h) |-> PatternPixel(base, k - 1)])

PatternBases == {10, 200}

CodecImages == {PatternImage(d[1], d[2], base) : d \in Dims, base \in PatternBases}

\* files that bmp_save did not write: a well-formed one, and ones that differ
\* from it in one header field or in a gap before the pixel rows
Variations == {"plain", "bad_magic", "bit_count_32", "compressed", "top_down", "gap"}

CraftedBytes(img, v) ==
    LET padding    == calculate_padding(img.width)
        image_size == (img.width * SizeofPixel + padding) * img.height
        gap        == IF v = "gap" THEN 4 ELSE 0
        fh == [SaveFileHeader(image_size) EXCEPT
                 !.type   = IF v = "bad_magic" THEN 16706 ELSE @,
                 !.size   = @ + gap,
                 !.offset = @ + gap]
        ih == [SaveInfoHeader(img, image_size) EXCEPT
                 !.bit_count   = IF v = "bit_count_32" THEN 32 ELSE @,
                 !.compression = IF v = "compressed" THEN 1 ELSE @,
                 !.height      = IF v = "top_down" THEN -@ ELSE @]
    IN  FileHeaderBytes(fh) \o InfoHeaderBytes(ih) \o [k \in 1..gap |-> 255]
            \o SaveRows(img, padding, 0)

CraftedFiles ==
    {File(CraftedBytes(PatternImage(d[1], d[2], 10), v)) : d \in Dims, v \in Variations}

\* what fh and ih may hold when no fread stored anything in them
GarbageHeaders ==
    {[type |-> t, offset |-> PixelDataOffset, width |-> 1, height |-> 1,
      bit_count |-> BitCount24, compression |-> 0] : t \in {0, BM_MAGIC}}

\* what a malloc'ed buffer of width * height pixels may hold when nothing was
\* read into it
GarbageData(width, height) ==
    {img.data : img \in {c \in CodecImages : c.width = width /\ c.height = height}}

NoCodecCall == [op |-> "none", file |-> NoFile, ok |-> TRUE]

CodecCall(op, file, ok) == [op |-> op, file |-> file, ok |-> ok]

InitCodec ==
    /\ image \in CodecImages
    /\ call = NoCodecCall
    /\ BufferAtRest
    /\ CodecAtRest
    /\ PaddingAtRest

(***************************************************************************)
(* SpecCodec: bmp_save and bmp_free, each one step.                        *)
(***************************************************************************)
\* bmp_save(image, filename); open_ok: whether fopen(filename, "wb") succeeds
bmp_save(open_ok) ==
    /\ pc = "idle" /\ ~crashed
    /\ ~image.null /\ ~image.data_null
    /\ call' = CodecCall("bmp_save", NoFile, open_ok)
    /\ IF ~open_ok
       THEN /\ err' = BMP_ERR_FILE_NOT_FOUND
            /\ UNCHANGED <<disk, saved>>
       ELSE /\ err' = BMP_SUCCESS
            /\ disk' = File(SaveBytes(image))
            /\ saved' = image
    /\ ret' = ErrorRet(err')
    /\ UNCHANGED <<image, streak, streakBase, filepath, hdr, img_local, heap, trace, pc, crashed, padVars>>

\* bmp_free(image); the caller keeps no image afterwards
bmp_free ==
    /\ pc = "idle" /\ ~crashed
    /\ call' = CodecCall("bmp_free", NoFile, TRUE)
    /\ ret' = VoidRet
    /\ image' = NullImage
    /\ UNCHANGED <<streak, streakBase, disk, saved, err, filepath, hdr, img_local, heap, trace, pc,
                   crashed, padVars>>

(***************************************************************************)
(* SpecCodec: bmp_load, one step per group of source lines.  A call on a   *)
(* NULL stream and a store through a NULL pointer are undefined: the       *)
(* process faults, or the call does nothing and execution goes on.         *)
(***************************************************************************)
\* the fault: the process dies where it is, *err_out holding e
Fault(e) ==
    /\ crashed' = TRUE
    /\ err' = e
    /\ UNCHANGED <<image, ret, pc>>

\* return img, with *err_out = e
LoadReturn(img, e) ==
    /\ image' = img
    /\ err' = e
    /\ ret' = PointerRet(img.null)
    /\ pc' = "idle"
    /\ crashed' = crashed

\* fclose(filepath); return img
CloseAndReturn(img, e) ==
    \/ filepath = "open" /\ filepath' = "closed" /\ LoadReturn(img, e)
    \/ filepath = "null" /\ filepath' = filepath /\ LoadReturn(img, e)
    \/ filepath = "null" /\ filepath' = filepath /\ Fault(e)

\* lines 50-53: fopen; on failure *err_out is set and execution goes on
bmp_load_fopen(file) ==
    /\ pc = "idle" /\ ~crashed
    /\ call' = CodecCall("bmp_load", file, file.exists)
    /\ trace' = <<"fopen">>
    /\ filepath' = IF file.exists THEN "open" ELSE "null"
    /\ err' = IF file.exists THEN err ELSE BMP_ERR_FILE_NOT_FOUND
    /\ pc' = "L58"
    /\ hdr' = NoHeader
    /\ img_local' = NoLocalImage
    /\ heap' = {}
    /\ ret' = VoidRet
    /\ UNCHANGED <<image, streak, streakBase, disk, saved, crashed, padVars>>

\* lines 58-59: fread(&fh, ...), fread(&ih, ...)
bmp_load_read_headers ==
    /\ pc = "L58" /\ ~crashed
    /\ \/ /\ filepath = "open"
          /\ hdr' = ReadHeaders(call.file.bytes)
          /\ trace' = trace \o <<"fread", "fread">>
          /\ pc' = "L61"
          /\ UNCHANGED <<crashed, err>>
       \/ /\ filepath = "null"
          /\ hdr' \in GarbageHeaders
          /\ trace' = trace \o <<"fread", "fread">>
          /\ pc' = "L61"
          /\ UNCHANGED <<crashed, err>>
       \/ /\ filepath = "null"
          /\ trace' = Append(trace, "fread")
          /\ hdr' = hdr
          /\ Fault(err)
    /\ UNCHANGED <<image, call, ret, streak, streakBase, disk, saved, filepath, img_local, heap, padVars>>

\* lines 61-65: the format check
bmp_load_check_format ==
    /\ pc = "L61" /\ ~crashed
    /\ IF BadFormat(hdr)
       THEN /\ trace' = Append(trace, "fclose")
            /\ CloseAndReturn(NullImage, BMP_ERR_INVALID_FORMAT)
       ELSE /\ pc' = "L67"
            /\ UNCHANGED <<image, ret, err, filepath, trace, crashed>>
    /\ UNCHANGED <<call, streak, streakBase, disk, saved, hdr, img_local, heap, padVars>>

\* lines 67-69: malloc(sizeof(BMPImage)), unchecked, then the stores to
\* img->height and img->width
bmp_load_malloc_img(alloc_ok) ==
    /\ pc = "L67" /\ ~crashed
    /\ trace' = Append(trace, "malloc")
    /\ \/ /\ alloc_ok
          /\ img_local' = [NoLocalImage EXCEPT !.ptr = "heap", !.height = Abs(hdr.height),
                                          !.width = hdr.width]
          /\ heap' = heap \cup {"img"}
          /\ pc' = "L70"
          /\ UNCHANGED <<crashed, err>>
       \/ /\ ~alloc_ok
          /\ img_local' = [NoLocalImage EXCEPT !.ptr = "null", !.height = Abs(hdr.height),
                                          !.width = hdr.width]
          /\ heap' = heap
          /\ pc' = "L70"
          /\ UNCHANGED <<crashed, err>>
       \/ /\ ~alloc_ok
          /\ UNCHANGED <<img_local, heap>>
          /\ Fault(err)
    /\ UNCHANGED <<image, call, ret, streak, streakBase, disk, saved, filepath, hdr, padVars>>

\* lines 70-77: malloc of the pixel buffer, and the exit when it fails
bmp_load_malloc_data(alloc_ok) ==
    /\ pc = "L70" /\ ~crashed
    /\ IF alloc_ok
       THEN /\ trace' = Append(trace, "malloc")
            /\ img_local' = [img_local EXCEPT !.data_null = FALSE]
            /\ heap' = heap \cup {"data"}
            /\ pc' = "L79"
            /\ UNCHANGED <<image, ret, err, filepath, crashed>>
       ELSE /\ trace' = trace \o <<"malloc", "free", "fclose">>
            /\ img_local' = img_local
            /\ heap' = heap \ {"img"}
            /\ CloseAndReturn(NullImage, BMP_ERR_MALLOC_FAILED)
    /\ UNCHANGED <<call, streak, streakBase, disk, saved, hdr, padVars>>

\* the image bmp_load hands back: NULL when img is the NULL pointer
Loaded(data) ==
    IF img_local.ptr = "null"
    THEN NullImage
    ELSE MkImage(img_local.width, img_local.height, data)

\* lines 79-89: padding, fseek, the row loop, fclose, success
bmp_load_read_rows ==
    /\ pc = "L79" /\ ~crashed
    /\ \/ /\ filepath = "open"
          /\ trace' = trace \o <<"fseek", "fread", "fclose">>
          /\ CloseAndReturn(Loaded(LoadRows(call.file.bytes, hdr.offset,
                                            img_local.width, img_local.height)),
                            BMP_SUCCESS)
       \/ /\ filepath = "null"
          /\ trace' = trace \o <<"fseek", "fread", "fclose">>
          /\ \E data \in GarbageData(img_local.width, img_local.height) :
                CloseAndReturn(Loaded(data), BMP_SUCCESS)
       \/ /\ filepath = "null"
          /\ trace' = Append(trace, "fseek")
          /\ filepath' = filepath
          /\ Fault(err)
    /\ UNCHANGED <<call, streak, streakBase, disk, saved, hdr, img_local, heap, padVars>>

NextCodec ==
    \/ \E open_ok \in BOOLEAN : bmp_save(open_ok)
    \/ bmp_free
    \/ \E file \in {NoFile, disk} \cup CraftedFiles : bmp_load_fopen(file)
    \/ bmp_load_read_headers
    \/ bmp_load_check_format
    \/ \E alloc_ok \in BOOLEAN : bmp_load_malloc_img(alloc_ok)
    \/ \E alloc_ok \in BOOLEAN : bmp_load_malloc_data(alloc_ok)
    \/ bmp_load_read_rows

SpecCodec == InitCodec /\ [][NextCodec]_vars

(***************************************************************************)
(* SpecPadding: calculate_padding applied to widths of either sign.        *)
(***************************************************************************)
PadWidths == (-MaxPadWidth)..MaxPadWidth

InitPadding ==
    /\ image = NullImage
    /\ call = NoCall
    /\ BufferAtRest
    /\ CodecAtRest
    /\ PaddingAtRest

CalculatePaddingCall(width) ==
    /\ call' = BufCall("calculate_padding", 0, 0, Black, TRUE)
    /\ padW' = width
    /\ padP' = calculate_padding(width)
    /\ UNCHANGED <<image, ret, streak, streakBase, codecVars>>

NextPadding == \E width \in PadWidths : CalculatePaddingCall(width)

SpecPadding == InitPadding /\ [][NextPadding]_vars

(***************************************************************************)
(* The properties.                                                         *)
(***************************************************************************)
\* the buffer holds exactly width * height pixels
Consistent(img) == img.null \/ Len(img.data) = img.width * img.height

HasBuffer(img) == ~img.null /\ ~img.data_null

\* C1: under set, rotate, flip, grayscale and invert, with allocations that
\* succeed or fail, the buffer of the image always holds width * height
\* pixels, and a bmp_rotate_right call either leaves the image as it was or
\* swaps width and height and installs a buffer of the new size, all at once.
C1_BufferMatchesDimensions ==
    [][/\ Consistent(image)
       /\ Consistent(image')
       /\ call'.op = "bmp_rotate_right" =>
            \/ image' = image
            \/ /\ image'.width = image.height
               /\ image'.height = image.width
               /\ Len(image'.data) = image.height * image.width]_vars

C1_Witness ==
    /\ call.op = "bmp_rotate_right"
    /\ call.alloc_ok
    /\ streak = 1
    /\ streakBase.width = 3 /\ streakBase.height = 1
    /\ image.width = 1 /\ image.height = 3
    /\ Len(image.data) = 3

\* C8: four successful bmp_rotate_right calls in a row give back the image
\* they started from (dimensions and every pixel), and the index map of one
\* rotation sends the source positions one-to-one onto all the destination
\* indices 0 .. width*height-1.
RotationIsBijection(img) ==
    /\ {RotateNewIndex(img, img.height, p[1], p[2]) : p \in LoopPairs(img)}
          = 0..(img.width * img.height - 1)
    /\ \A p, q \in LoopPairs(img) :
          RotateNewIndex(img, img.height, p[1], p[2])
              = RotateNewIndex(img, img.height, q[1], q[2]) => p = q

C8_FourRotationsIdentity ==
    /\ streak = 4 => image = streakBase
    /\ HasBuffer(image) => RotationIsBijection(image)

C8_Witness ==
    /\ streak = 4
    /\ image = streakBase
    /\ image.width = 2 /\ image.height = 2
    /\ Cardinality({image.data[k] : k \in 1..4}) >= 2

\* C9: on an image with a buffer, bmp_get_pixel returns black for x < 0,
\* x >= width, y < 0 or y >= height and the element at index y*width + x
\* otherwise, and changes nothing; bmp_set_pixel changes nothing for such
\* out-of-range coordinates and otherwise replaces exactly the element at
\* index y*width + x.
C9_BoundsCheckedAccess ==
    [][LET x   == call'.x
           y   == call'.y
           out == x < 0 \/ x >= image.width \/ y < 0 \/ y >= image.height
       IN  /\ (call'.op = "bmp_get_pixel" /\ HasBuffer(image)) =>
                /\ image' = image
                /\ ret'.kind = "Pixel"
                /\ ret'.pixel = IF out THEN Pixel(0, 0, 0)
                                       ELSE image.data[y * image.width + x + 1]
           /\ (call'.op = "bmp_set_pixel" /\ HasBuffer(image)) =>
                IF out
                THEN image' = image
                ELSE /\ image'.width = image.width
                     /\ image'.height = image.height
                     /\ Len(image'.data) = Len(image.data)
                     /\ \A k \in 1..Len(image.data) :
                           image'.data[k] = IF k = y * image.width + x + 1
                                            THEN call'.color
                                            ELSE image.data[k]]_vars

C9_Witness ==
    /\ call.op = "bmp_get_pixel"
    /\ HasBuffer(image)
    /\ image.height = 2
    /\ call.x = image.width /\ call.y = 0
    /\ image.data[image.width + 1] # Black
    /\ ret.pixel = Black

\* C6: when the allocation of the new buffer fails, bmp_rotate_right leaves
\* the image as it was and hands its caller an indication of the failure.
C6_RotateFailureSignalled ==
    [][(call'.op = "bmp_rotate_right" /\ ~call'.alloc_ok /\ HasBuffer(image)) =>
          /\ image' = image
          /\ ret' # VoidRet]_vars

\* what a file's header bytes say, read off the file itself
FileMagic(file) == U16At(file.bytes, 0)

FileBitCount(file) == U16At(file.bytes, 28)

FileCompression(file) == U32At(file.bytes, 30)

Occurrences(seq, e) == Cardinality({k \in DOMAIN seq : seq[k] = e})

\* bmp_load has been called on `call.file` and is past its format check
PastFormatCheck == call.op = "bmp_load" /\ pc \notin {"L58", "L61"}

LoadEnded == call.op = "bmp_load" /\ (pc = "idle" \/ crashed)

\* C2: loading the file that bmp_save wrote for an image, when an image is
\* returned, returns an image of the same width, the same height and the same
\* pixel at every position (and reports success).
C2_RoundTrip ==
    (/\ call.op = "bmp_load" /\ pc = "idle" /\ ~crashed
     /\ disk.exists /\ call.file = disk
     /\ ~image.null) =>
        /\ err = BMP_SUCCESS
        /\ image.width = saved.width
        /\ image.height = saved.height
        /\ image.data = saved.data

C2_Witness ==
    /\ call.op = "bmp_load" /\ pc = "idle" /\ ~crashed
    /\ disk.exists /\ call.file = disk
    /\ ~image.null
    /\ image = saved
    /\ image.width = 1 /\ image.height = 3
    /\ calculate_padding(image.width) = 1

\* C3: when the file cannot be opened, bmp_load reports FILE_NOT_FOUND and
\* stops: it makes no further library call (no fread, no malloc, nothing on
\* the stream that was never opened) and returns no image.
C3_OpenFailureStops ==
    (call.op = "bmp_load" /\ ~call.file.exists) =>
        /\ trace = <<"fopen">>
        /\ ~crashed
        /\ err = BMP_ERR_FILE_NOT_FOUND
        /\ pc = "idle" => image.null

\* C4: for a file that could be opened and whose magic is not "BM" or whose
\* bits-per-pixel is not 24, bmp_load ends at the format check: it reports
\* INVALID_FORMAT, returns NULL, and has made no allocation.
C4_BadFormatRejected ==
    (/\ PastFormatCheck
     /\ call.file.exists
     /\ FileMagic(call.file) # BM_MAGIC \/ FileBitCount(call.file) # BitCount24) =>
        /\ pc = "idle" /\ ~crashed
        /\ err = BMP_ERR_INVALID_FORMAT
        /\ image.null /\ ret.kind = "NULL"
        /\ heap = {}
        /\ Occurrences(trace, "malloc") = 0
        /\ filepath = "closed"

C4_Witness ==
    /\ PastFormatCheck
    /\ call.file.exists
    /\ FileMagic(call.file) = BM_MAGIC
    /\ FileBitCount(call.file) = 32
    /\ err = BMP_ERR_INVALID_FORMAT
    /\ image.null

\* C5: however a bmp_load call on a file that was opened ends, it has
\* returned, the file has been closed exactly once, a failure has released
\* every block the call allocated, and an image is returned exactly when
\* success is reported.
C5_ExitDiscipline ==
    (LoadEnded /\ call.file.exists) =>
        /\ ~crashed
        /\ filepath = "closed"
        /\ Occurrences(trace, "fclose") = 1
        /\ err # BMP_SUCCESS => (image.null /\ heap = {})
        /\ image.null => (err # BMP_SUCCESS /\ heap = {})

\* C7: a file that could be opened and whose compression field is not 0 is
\* rejected at the format check: INVALID_FORMAT is reported and NULL returned.
C7_CompressedRejected ==
    (/\ PastFormatCheck
     /\ call.file.exists
     /\ FileCompression(call.file) # 0) =>
        /\ pc = "idle" /\ ~crashed
        /\ err = BMP_ERR_INVALID_FORMAT
        /\ image.null

\* C10: for every width w, the padding p that calculate_padding returns
\* satisfies 0 <= p <= 3 and (w*3 + p) mod 4 = 0.
C10_PaddingLaw ==
    call.op = "calculate_padding" =>
        /\ 0 <= padP /\ padP <= 3
        /\ (padW * 3 + padP) % 4 = 0

C10_Witness ==
    /\ call.op = "calculate_padding"
    /\ padW = -3
    /\ padP = 1

====
